---- MODULE Spec2Model ----
(***************************************************************************)
(* BlockingRecordIterator (src/blocking/blocking.py): a two-phase blocking *)
(* session over a record source.  __iter__ builds a MinHash LSH index from *)
(* the first session_size records of the source, __next__ re-streams the   *)
(* source and pairs every record with the ids the index returns for it.    *)
(*                                                                         *)
(* Strings are sequences of one-character strings; a field value is a      *)
(* tagged record (str / int / none); a record is a sequence of <<key,      *)
(* value>> pairs in column order.  An optional reference (None or an       *)
(* object) is a sequence of length 0 or 1.                                 *)
(***************************************************************************)
EXTENDS Integers, Sequences, FiniteSets, TLC

\* ------------------------------------------------------------------ bounds
MaxSrc == 2          \* longest source (number of rows the query returns)
MaxSession == 2      \* largest session_size
MaxCalls == 4        \* __iter__ / __next__ calls made by the caller in one run
NumPerm == 2         \* num_perm, the signature length

\* ------------------------------------------------------------- field values
StrV(s) == [kind |-> "str", s |-> s, n |-> 0]
IntV(n) == [kind |-> "int", s |-> <<>>, n |-> n]
NoneV == [kind |-> "none", s |-> <<>>, n |-> 0]

\* Python truthiness of a field value (`if val:`)
Truthy(v) == CASE v.kind = "str" -> v.s # <<>>
               [] v.kind = "int" -> v.n # 0
               [] OTHER -> FALSE

Digit(d) == CASE d = 0 -> "0" [] d = 1 -> "1" [] d = 2 -> "2" [] d = 3 -> "3"
              [] d = 4 -> "4" [] d = 5 -> "5" [] d = 6 -> "6" [] d = 7 -> "7"
              [] d = 8 -> "8" [] OTHER -> "9"

RECURSIVE Digits(_)
Digits(n) == IF n < 10 THEN <<Digit(n)>> ELSE Digits(n \div 10) \o <<Digit(n % 10)>>

\* str(x) / "{}".format(x)
Str(v) == CASE v.kind = "str" -> v.s
            [] v.kind = "int" -> Digits(v.n)
            [] OTHER -> <<"N", "o", "n", "e">>

\* ------------------------------------------------------------------ records
id_name == "id"

HasKey(r, k) == \E i \in 1..Len(r) : r[i][1] = k
Get(r, k) == r[CHOOSE i \in 1..Len(r) : r[i][1] = k][2]

RECURSIVE DropKey(_, _)
DropKey(r, k) == IF r = <<>> THEN <<>>
                 ELSE IF Head(r)[1] = k THEN DropKey(Tail(r), k)
                 ELSE <<Head(r)>> \o DropKey(Tail(r), k)

\* the rows a query can return: the id column (present or not), a name column
\* (absent, one word, two words)
IdValues == {IntV(1), IntV(2)}
NameValues == {StrV(<<"a">>), StrV(<<"a", " ", "b">>)}
IdPart == {<<>>} \cup {<< <<id_name, v>> >> : v \in IdValues}
NamePart == {<<>>} \cup {<< <<"name", v>> >> : v \in NameValues}
Records == {ip \o np : ip \in IdPart, np \in NamePart}

\* the sources: every sequence of at most MaxSrc rows
Sources == UNION {[1..n -> Records] : n \in 0..MaxSrc}

\* ------------------------------------------------------------ string helpers
RECURSIVE Join(_, _)
Join(strs, delimiter) ==
    IF strs = <<>> THEN <<>>
    ELSE IF Len(strs) = 1 THEN strs[1]
    ELSE strs[1] \o delimiter \o Join(Tail(strs), delimiter)

\* str.split(" "): splits at every single space, keeps empty pieces
RECURSIVE SplitAcc(_, _, _)
SplitAcc(s, cur, acc) ==
    IF s = <<>> THEN Append(acc, cur)
    ELSE IF Head(s) = " " THEN SplitAcc(Tail(s), <<>>, Append(acc, cur))
    ELSE SplitAcc(Tail(s), Append(cur, Head(s)), acc)

Split(s) == SplitAcc(s, <<>>, <<>>)

\* re.sub("\s+", "", rstr)
RECURSIVE StripWhitespace(_)
StripWhitespace(s) ==
    IF s = <<>> THEN <<>>
    ELSE IF Head(s) = " " THEN StripWhitespace(Tail(s))
    ELSE <<Head(s)>> \o StripWhitespace(Tail(s))

RECURSIVE SeqFilterTruthy(_)
SeqFilterTruthy(vals) ==
    IF vals = <<>> THEN <<>>
    ELSE IF Truthy(Head(vals)) THEN <<Head(vals)>> \o SeqFilterTruthy(Tail(vals))
    ELSE SeqFilterTruthy(Tail(vals))

\* --------------------------------------------------------- shingle extraction
\* _record_to_string: the truthy values of the non-id columns, each cast to
\* str, joined by the delimiter
_record_to_string(r, delimiter) ==
    LET keys == DropKey(r, id_name)
        vals == SeqFilterTruthy([i \in 1..Len(keys) |-> keys[i][2]])
    IN Join([i \in 1..Len(vals) |-> Str(vals[i])], delimiter)

\* _get_record_text: txt starts as None; the first non-id column formats
\* "None <value>", every later column overwrites txt with its raw value
RECURSIVE RecordTextLoop(_, _)
RecordTextLoop(rc, txt) ==
    IF rc = <<>> THEN txt
    ELSE IF txt.kind # "none" THEN RecordTextLoop(Tail(rc), Head(rc)[2])
    ELSE RecordTextLoop(Tail(rc), StrV(Str(txt) \o <<" ">> \o Str(Head(rc)[2])))

_get_record_text(r) == RecordTextLoop(DropKey(r, id_name), NoneV)

\* _split_str_to_chars: one piece per character, [] for a blank string
_split_str_to_chars(val) == [i \in 1..Len(val) |-> <<val[i]>>]

\* _split_record_words
_split_record_words(r) == Split(_record_to_string(r, <<" ">>))

Ok(v) == [err |-> "", val |-> v]
Raise(e) == [err |-> e, val |-> <<>>]

\* _get_shingle with a final branch that rejects a configuration selecting
\* neither strategy flag
_get_shingle_strict(r, is_letter, is_text) ==
    IF is_letter
    THEN Ok(_split_str_to_chars(StripWhitespace(_record_to_string(r, <<>>))))
    ELSE IF is_text
    THEN Raise("AttributeError")
    ELSE Raise("ValueError")

\* _get_shingle under flags (is_letter, is_text).  The is_text branch calls
\* txt.split(" ") (no such attribute unless txt is a str) and then x.trim()
\* on the first piece (str has no trim): AttributeError either way.
_get_shingle(r, is_letter, is_text) ==
    IF is_letter
    THEN Ok(_split_str_to_chars(StripWhitespace(_record_to_string(r, <<>>))))
    ELSE IF is_text
    THEN LET txt == _get_record_text(r) IN
         IF txt.kind # "str" THEN Raise("AttributeError")
         ELSE IF Len(Split(txt.s)) > 0 THEN Raise("AttributeError")
         ELSE Ok(<<>>)
    ELSE Ok(_split_record_words(r))

\* -------------------------------------------------------------------- MinHash
\* datasketch.MinHash, scaled down: a 3-bit hash range and the Mersenne
\* prime 31 in place of 32 bits and 2^61 - 1
MaxHash == 7
MersennePrime == 31

CharCode(c) == CASE c = "a" -> 1 [] c = "b" -> 6 [] c = " " -> 3 [] OTHER -> 4

\* the hash of a token's UTF-8 bytes
RECURSIVE HashBytes(_)
HashBytes(tok) ==
    IF tok = <<>> THEN 5
    ELSE (3 * HashBytes(SubSeq(tok, 1, Len(tok) - 1)) + CharCode(tok[Len(tok)]))
             % (MaxHash + 1)

\* permutation slot p of a hash value: ((a*hv + b) % prime) & max_hash, with
\* the fixed seeds a = 2p + 1, b = p
Permute(p, hv) == (((2 * p + 1) * hv + p) % MersennePrime) % (MaxHash + 1)

Min(a, b) == IF a < b THEN a ELSE b

\* MinHash(num_perm): every slot holds the sentinel max_hash
MinHashInit(num_perm) == [p \in 1..num_perm |-> MaxHash]

\* MinHash.update(b): slot-wise minimum with the permuted hash of b
MinHashUpdate(m, tok) == [p \in 1..Len(m) |-> Min(m[p], Permute(p, HashBytes(tok)))]

RECURSIVE MinHashFold(_, _)
MinHashFold(m, cset) ==
    IF cset = <<>> THEN m ELSE MinHashFold(MinHashUpdate(m, Head(cset)), Tail(cset))

\* _get_min_hash refusing an empty shingle list
_get_min_hash_nonempty(r, is_letter, is_text) ==
    LET cset == _get_shingle(r, is_letter, is_text) IN
    IF cset.err # "" THEN Raise(cset.err)
    ELSE IF cset.val = <<>> THEN Raise("ValueError")
    ELSE Ok(MinHashFold(MinHashInit(NumPerm), cset.val))

\* _get_min_hash: the signature of the record's shingles, or the error the
\* shingle extraction raised
_get_min_hash(r, is_letter, is_text) ==
    LET cset == _get_shingle(r, is_letter, is_text) IN
    IF cset.err # "" THEN Raise(cset.err)
    ELSE Ok(MinHashFold(MinHashInit(NumPerm), cset.val))

\* ------------------------------------------------------------------ LSH index
\* MinHashLSH(threshold, num_perm): r rows per band grow with the threshold,
\* b bands of r rows fit into the num_perm slots
BandRows(threshold) == threshold
BandCount(threshold) == NumPerm \div threshold

\* the slots of band j
BandKey(sig, j, r) == SubSeq(sig, (j - 1) * r + 1, j * r)

\* the bucket entries <<band, band key, id>> an insert of (key, signature) adds
InsertEntries(key, sig, threshold) ==
    {<<j, BandKey(sig, j, BandRows(threshold)), key>> : j \in 1..BandCount(threshold)}

\* MinHashLSH.query: the ids of every bucket the signature falls into
LshQuery(tables, sig, threshold) ==
    {e[3] : e \in {x \in tables : x[2] = BandKey(sig, x[1], BandRows(threshold))}}

\* a new index: empty tables, no insertion session
NewLsh == [tables |-> {}, buffer |-> {}, session |-> FALSE]

\* insertion_session().__enter__ / insert / __exit__: inserts are buffered
\* and reach the tables when the session closes
SessionOpen(l) == [l EXCEPT !.session = TRUE]
SessionInsert(l, key, sig, threshold) ==
    [l EXCEPT !.buffer = @ \cup InsertEntries(key, sig, threshold)]
SessionClose(l) == [tables |-> l.tables \cup l.buffer, buffer |-> {}, session |-> FALSE]

\* ---------------------------------------------------------- the record source
\* PGRecordIterator: one object per get_iter call, a named server-side cursor
\* over the query's rows
cursor_name == <<"cur">>

\* iter(it): opens the cursor under the object's current name, at the first row
OpenCursor(it) == [it EXCEPT !.open = TRUE, !.pos = 0]
close_cursor(it) == [it EXCEPT !.open = FALSE]
set_cursor_name(it, name) == [it EXCEPT !.name = name]

\* get_iter: a new PGRecordIterator under cursor_name, and iter() of it
get_iter == OpenCursor([name |-> cursor_name, open |-> FALSE, pos |-> 0])

\* ------------------------------------------------------------------- the state
VARIABLES
    cfg,        \* constructor arguments: storage_config (truthy or not),
                \* is_letter, is_text, session_size, threshold
    source,     \* the rows the query returns, in cursor order
    lsh,        \* self.__lsh: <<>> (None) or <<index>>
    its,        \* the PGRecordIterator objects created so far
    curr_it,    \* self.__curr_it: <<>> (None) or <<index into its>>
    record_it,  \* self.__record_it: <<>> (None) or <<index into its>>
    pc,         \* "idle" between calls, "building" inside _create_hashes
    i,          \* _create_hashes: records counted against session_size
    run,        \* _create_hashes: False once the source raised StopIteration
    log,        \* history: the outcome of every finished or failed call
    builds,     \* history: how many times the build phase was started
    pulled,     \* history: rows the latest build phase pulled from the source
    inserted,   \* history: source positions whose record session.insert took
    shingled,   \* history: the latest _get_shingle call, <<>> or <<[rec, res]>>
    queries,    \* history: per index query, the session flag and the
                \* inserted entries the tables did not hold
    conn        \* self.__conn: TRUE while the connection is open

vars == <<cfg, source, lsh, its, curr_it, record_it, pc, i, run, log, builds,
          pulled, inserted, shingled, queries, conn>>

Configs == [storage_config : BOOLEAN, is_letter : BOOLEAN, is_text : BOOLEAN,
            session_size : 1..MaxSession, threshold : 1..NumPerm]

\* __init__
Init ==
    /\ cfg \in Configs
    /\ source \in Sources
    /\ lsh = <<>>
    /\ its = <<>>
    /\ curr_it = <<>>
    /\ record_it = <<>>
    /\ pc = "idle"
    /\ i = 0
    /\ run = TRUE
    /\ log = <<>>
    /\ builds = 0
    /\ pulled = 0
    /\ inserted = {}
    /\ shingled = <<>>
    /\ queries = <<>>
    /\ conn = TRUE

Outcome(op, kind) ==
    [op |-> op, kind |-> kind, pos |-> 0, rec |-> <<>>, vals |-> {}, fault |-> FALSE]
Pair(pos, rec, vals) ==
    [op |-> "next", kind |-> "pair", pos |-> pos, rec |-> rec, vals |-> vals,
     fault |-> FALSE]
\* a pull that raised after it had taken row pos from the cursor; fault tells
\* that the storage backend failed under the index query
Failed(pos, rec, kind, fault) ==
    [op |-> "next", kind |-> kind, pos |-> pos, rec |-> rec, vals |-> {},
     fault |-> fault]

\* an except clause that catches every exception
ExceptClauseCatchAll(err) == "StopIteration"

\* __next__: `except StopIteration: raise StopIteration` lets every other
\* exception through unchanged
ExceptClause(err) == err

\* setup_lsh without the storage_config test
setup_lsh_unchecked(storage_config) == Ok(<<NewLsh>>)

\* setup_lsh: the index, or ValueError without a storage backend
setup_lsh(storage_config) ==
    IF storage_config THEN Ok(<<NewLsh>>) ELSE Raise("ValueError")

\* the insert keyed by the loop counter instead of the record's id
BuildInsertCounterKey(l, r, m, n) == SessionInsert(l, IntV(n), m, cfg.threshold)

\* the insert that first drops the memberships the id already has
BuildInsertReplacing(l, r, m, n) ==
    SessionInsert([tables |-> {e \in l.tables : e[3] # Get(r, id_name)},
                   buffer |-> {e \in l.buffer : e[3] # Get(r, id_name)},
                   session |-> l.session],
                  Get(r, id_name), m, cfg.threshold)

\* key_val = r[self.__id_name]; m = self._get_min_hash(r); session.insert(key_val, m)
BuildInsert(l, r, m, n) == SessionInsert(l, Get(r, id_name), m, cfg.threshold)

\* the query looking only into the first band's bucket
NextQueryFirstBand(l, m) ==
    LshQuery({x \in l.tables : x[1] = 1}, m, cfg.threshold)

\* vals = self.__lsh.query(m)
NextQuery(l, m) == LshQuery(l.tables, m, cfg.threshold)

\* the bucket entries of every insert the build phase made
InsertedEntries ==
    UNION {InsertEntries(Get(source[p], id_name),
                         _get_min_hash(source[p], cfg.is_letter, cfg.is_text).val,
                         cfg.threshold) : p \in inserted}

\* _create_hashes run again over the same source against index l: the loop
\* from source position pos with n records counted, then the session closes
RECURSIVE RebuildLoop(_, _, _)
RebuildLoop(l, pos, n) ==
    IF n < cfg.session_size /\ pos < Len(source)
    THEN LET r == source[pos + 1]
             m == _get_min_hash(r, cfg.is_letter, cfg.is_text)
         IN IF HasKey(r, id_name)
            THEN IF m.err # "" THEN l
                 ELSE RebuildLoop(BuildInsert(l, r, m.val, n), pos + 1, n + 1)
            ELSE RebuildLoop(l, pos + 1, n + 1)
    ELSE l

Rebuild(l) == SessionClose(RebuildLoop(SessionOpen(l), 0, 0))

\* `if nrow:` a row that is None or an empty mapping is falsy
RowTruthy(nrow) == nrow # <<>>

\* __iter__ up to the start of the build loop: nothing to do once __curr_it is
\* set; otherwise setup_lsh, get_iter, _create_hashes opens the insertion session
__iter__ ==
    /\ pc = "idle"
    /\ conn
    /\ Len(log) < MaxCalls
    /\ IF curr_it # <<>>
       THEN /\ log' = Append(log, Outcome("iter", "self"))
            /\ UNCHANGED <<lsh, its, pc, i, run, builds, pulled>>
       ELSE LET made == setup_lsh(cfg.storage_config) IN
            IF made.err # ""
            THEN /\ log' = Append(log, Outcome("iter", made.err))
                 /\ UNCHANGED <<lsh, its, pc, i, run, builds, pulled>>
            ELSE /\ lsh' = <<SessionOpen(made.val[1])>>
                 /\ its' = Append(its, get_iter)
                 /\ pc' = "building"
                 /\ i' = 0
                 /\ run' = TRUE
                 /\ builds' = builds + 1
                 /\ pulled' = 0
                 /\ UNCHANGED log
    /\ UNCHANGED <<cfg, source, curr_it, record_it, inserted, shingled, queries, conn>>

\* the loop of _create_hashes taking one record more than session_size
LoopContinuesInclusive(n, going, session_size) == n <= session_size /\ going

\* `while i < self.session_size and run`
LoopContinues(n, going, session_size) == n < session_size /\ going

\* one iteration of the loop of _create_hashes.  An exception other than
\* StopIteration leaves the with block (the session closes) and __iter__.
_create_hashes ==
    /\ pc = "building"
    /\ LoopContinues(i, run, cfg.session_size)
    /\ LET it == its[Len(its)] IN
       IF it.pos < Len(source)
       THEN LET r == source[it.pos + 1] IN
            /\ its' = [its EXCEPT ![Len(its)].pos = @ + 1]
            /\ pulled' = pulled + 1
            /\ IF HasKey(r, id_name)
               THEN LET m == _get_min_hash(r, cfg.is_letter, cfg.is_text) IN
                    /\ shingled' = <<[rec |-> r,
                                      res |-> _get_shingle(r, cfg.is_letter, cfg.is_text)]>>
                    /\ IF m.err # ""
                       THEN /\ lsh' = <<SessionClose(lsh[1])>>
                            /\ pc' = "idle"
                            /\ log' = Append(log, Outcome("iter", m.err))
                            /\ UNCHANGED <<i, run, inserted>>
                       ELSE /\ lsh' = <<BuildInsert(lsh[1], r, m.val, i)>>
                            /\ inserted' = inserted \cup {it.pos + 1}
                            /\ i' = i + 1
                            /\ UNCHANGED <<pc, log, run>>
               ELSE /\ i' = i + 1
                    /\ UNCHANGED <<lsh, pc, log, run, inserted, shingled>>
       ELSE /\ run' = FALSE
            /\ UNCHANGED <<lsh, its, pc, i, log, pulled, inserted, shingled>>
    /\ UNCHANGED <<cfg, source, curr_it, record_it, builds, queries, conn>>

\* the end of the build with the insertion session left open
FinishIterNoClose(l, it) ==
    [lsh |-> l,
     it |-> OpenCursor(set_cursor_name(close_cursor(it), it.name \o <<"_matches">>))]

\* the loop of _create_hashes ends: the insertion session closes, and
\* __iter__ closes the build cursor, renames it, reopens it and keeps it
FinishIter(l, it) ==
    [lsh |-> SessionClose(l),
     it |-> OpenCursor(set_cursor_name(close_cursor(it), it.name \o <<"_matches">>))]

iter_finish ==
    /\ pc = "building"
    /\ ~LoopContinues(i, run, cfg.session_size)
    /\ LET done == FinishIter(lsh[1], its[Len(its)]) IN
       /\ lsh' = <<done.lsh>>
       /\ its' = [its EXCEPT ![Len(its)] = done.it]
    /\ curr_it' = <<Len(its)>>
    /\ record_it' = <<Len(its)>>
    /\ pc' = "idle"
    /\ log' = Append(log, Outcome("iter", "self"))
    /\ UNCHANGED <<cfg, source, i, run, builds, pulled, inserted, shingled, queries,
                   conn>>

\* __next__: next(None, None) is a TypeError; a falsy row and the end of the
\* cursor both raise StopIteration; otherwise the row and the ids queried.
\* The storage backend may fail under the index query (an I/O error).
__next__ ==
    /\ pc = "idle"
    /\ conn
    /\ Len(log) < MaxCalls
    /\ IF curr_it = <<>>
       THEN /\ log' = Append(log, Outcome("next", "TypeError"))
            /\ UNCHANGED <<its, shingled, queries>>
       ELSE LET it == its[curr_it[1]] IN
            IF it.pos < Len(source)
            THEN LET nrow == source[it.pos + 1] IN
                 /\ its' = [its EXCEPT ![curr_it[1]].pos = @ + 1]
                 /\ IF RowTruthy(nrow)
                    THEN LET m == _get_min_hash(nrow, cfg.is_letter, cfg.is_text) IN
                         /\ shingled' = <<[rec |-> nrow,
                                           res |-> _get_shingle(nrow, cfg.is_letter, cfg.is_text)]>>
                         /\ IF m.err # ""
                            THEN /\ log' = Append(log, Failed(it.pos + 1, nrow,
                                                              ExceptClause(m.err), FALSE))
                                 /\ UNCHANGED queries
                            ELSE /\ \E backend_fails \in BOOLEAN :
                                      log' = Append(log,
                                          IF backend_fails
                                          THEN Failed(it.pos + 1, nrow,
                                                      ExceptClause("BackendError"), TRUE)
                                          ELSE Pair(it.pos + 1, nrow,
                                                    NextQuery(lsh[1], m.val)))
                                 /\ queries' = Append(queries,
                                        [session |-> lsh[1].session,
                                         hidden |-> InsertedEntries \ lsh[1].tables])
                    ELSE /\ log' = Append(log, Outcome("next", ExceptClause("StopIteration")))
                         /\ UNCHANGED <<shingled, queries>>
            ELSE /\ log' = Append(log, Outcome("next", ExceptClause("StopIteration")))
                 /\ UNCHANGED <<its, shingled, queries>>
    /\ UNCHANGED <<cfg, source, lsh, curr_it, record_it, pc, i, run, builds,
                   pulled, inserted, conn>>

\* close (and __exit__): close_cursor on __record_it when it is set, then
\* conn.close().  The caller stops pulling before it closes: no call follows.
close ==
    /\ pc = "idle"
    /\ conn
    /\ Len(log) < MaxCalls
    /\ its' = IF record_it # <<>>
              THEN [its EXCEPT ![record_it[1]] = close_cursor(@)]
              ELSE its
    /\ conn' = FALSE
    /\ log' = Append(log, Outcome("close", "done"))
    /\ UNCHANGED <<cfg, source, lsh, curr_it, record_it, pc, i, run, builds,
                   pulled, inserted, shingled, queries>>

Next == __iter__ \/ _create_hashes \/ iter_finish \/ __next__ \/ close

Spec == Init /\ [][Next]_vars

\* ------------------------------------------------- shingle extraction alone
\* _get_shingle applied to one row of a wider shape: an id column (absent,
\* first or last) and two further columns holding None, a blank, text, or a
\* number
FieldValues == {NoneV, StrV(<<>>), StrV(<<"a">>), StrV(<<"a", " ", "b">>),
                IntV(0), IntV(7)}
FieldPart(k) == {<<>>} \cup {<< <<k, v>> >> : v \in FieldValues}
WideRecords ==
    {np \o qp : np \in FieldPart("name"), qp \in FieldPart("qty")}
    \cup {<< <<id_name, IntV(1)>> >> \o np \o qp :
              np \in FieldPart("name"), qp \in FieldPart("qty")}
    \cup {np \o qp \o << <<id_name, IntV(1)>> >> :
              np \in FieldPart("name"), qp \in FieldPart("qty")}

ShingleInit ==
    /\ cfg \in {c \in Configs : c.storage_config /\ c.session_size = 1 /\ c.threshold = 1}
    /\ source \in {<<r>> : r \in WideRecords}
    /\ lsh = <<>>
    /\ its = <<>>
    /\ curr_it = <<>>
    /\ record_it = <<>>
    /\ pc = "idle"
    /\ i = 0
    /\ run = TRUE
    /\ log = <<>>
    /\ builds = 0
    /\ pulled = 0
    /\ inserted = {}
    /\ shingled = <<>>
    /\ queries = <<>>
    /\ conn = TRUE

\* cset = self._get_shingle(r)
get_shingle_call ==
    /\ shingled = <<>>
    /\ shingled' = <<[rec |-> source[1],
                      res |-> _get_shingle(source[1], cfg.is_letter, cfg.is_text)]>>
    /\ UNCHANGED <<cfg, source, lsh, its, curr_it, record_it, pc, i, run, log,
                   builds, pulled, inserted, queries, conn>>

ShingleNext == get_shingle_call

ShingleSpec == ShingleInit /\ [][ShingleNext]_vars

\* ------------------------------------------------------------------ the claims
IsPair(e) == e.op = "next" /\ e.kind = "pair"
IsStop(e) == e.op = "next" /\ e.kind = "StopIteration"
PrefixLen == Min(cfg.session_size, Len(source))
BuildEnded == builds > 0 /\ pc = "idle"

\* C1: self-similarity.  Every query-phase pull that yields a record the
\* build phase inserted returns a candidate set holding that record's own id.
C1_SelfSimilarity ==
    \A k \in 1..Len(log) :
        (IsPair(log[k]) /\ log[k].pos \in inserted)
            => Get(log[k].rec, id_name) \in log[k].vals

\* a pull has yielded an inserted record with a non-empty shingle set, with
\* its own id among the candidates
C1_Witness ==
    \E k \in 1..Len(log) :
        /\ IsPair(log[k]) /\ log[k].pos \in inserted
        /\ _get_shingle(log[k].rec, cfg.is_letter, cfg.is_text).val # <<>>
        /\ Get(log[k].rec, id_name) \in log[k].vals

\* C2: the states are passed in order and never backwards: the build phase
\* (index creation plus insertion session) is started at most once in a run.
C2_BuildRunsAtMostOnce == builds <= 1

\* C3: the build phase ends exactly when session_size records have been
\* consumed or the source is exhausted: it pulls min(session_size, N) records.
C3_BuildConsumesPrefix ==
    /\ pulled <= PrefixLen
    /\ BuildEnded => pulled = PrefixLen

\* C4: after the build phase the indexed ids are the ids of exactly those of
\* the first min(session_size, N) records that carry the id field.
C4_IndexedIdsArePrefixIds ==
    BuildEnded =>
        {e[3] : e \in lsh[1].tables} =
            {Get(source[p], id_name) :
                p \in {q \in 1..PrefixLen : HasKey(source[q], id_name)}}

\* the records of the pairs yielded before call k, in the order yielded
PairsBefore(k) ==
    LET pairs == SelectSeq(SubSeq(log, 1, k - 1), IsPair)
    IN [j \in 1..Len(pairs) |-> pairs[j].rec]

\* C5: the query phase yields one pair for every record of the source, in
\* cursor order, and signals end-of-sequence only when the source is
\* exhausted: at the first end-of-sequence the records yielded are the source.
C5_QueryYieldsEveryRecord ==
    \A k \in 1..Len(log) :
        (IsStop(log[k]) /\ \A j \in 1..(k - 1) : ~IsStop(log[j]))
            => PairsBefore(k) = source

\* C6: EXHAUSTED is terminal: after a pull signalled end-of-sequence every
\* later pull signals end-of-sequence too.
C6_ExhaustedIsTerminal ==
    \A j, k \in 1..Len(log) :
        (j < k /\ IsStop(log[j]) /\ log[k].op = "next") => IsStop(log[k])

\* C7: a first pull on an UNINITIALIZED session that has a storage backend
\* starts the build phase and yields a pair or end-of-sequence; it does not fail.
C7_FirstPullStartsBuild ==
    (Len(log) >= 1 /\ log[1].op = "next" /\ cfg.storage_config)
        => (builds >= 1 /\ (IsPair(log[1]) \/ IsStop(log[1])))

\* C8: without a storage backend every __iter__ fails with the configuration
\* error before a cursor is opened or a record pulled, and the session stays
\* as constructed: no index, no iterator, no build started.
C8_NoBackendFailsSetup ==
    ~cfg.storage_config =>
        /\ lsh = <<>> /\ its = <<>> /\ curr_it = <<>> /\ record_it = <<>>
        /\ builds = 0 /\ pulled = 0 /\ pc = "idle"
        /\ \A k \in 1..Len(log) : log[k].op = "iter" => log[k].kind = "ValueError"

\* two __iter__ calls in a row on a session without a storage backend
C8_Witness ==
    /\ ~cfg.storage_config
    /\ Len(log) >= 2
    /\ log[1].op = "iter" /\ log[1].kind = "ValueError"
    /\ log[2].op = "iter" /\ log[2].kind = "ValueError"

\* C9 as claimed: with neither is_letter nor is_text set, shingle extraction
\* fails with a configuration error.
C9_NoStrategyRaises ==
    (~cfg.is_letter /\ ~cfg.is_text /\ shingled # <<>>) => shingled[1].res.err # ""

\* the text of the name column, "" when the record has none
NameText(r) == IF HasKey(r, "name") THEN Str(Get(r, "name")) ELSE <<>>

\* C9 as amended: with neither flag set, shingle extraction raises nothing
\* and returns the space-separated words of the non-id values: no word holds
\* a space, and the words joined by single spaces give back the text.
C9_NoStrategyFallsBackToWords ==
    (~cfg.is_letter /\ ~cfg.is_text /\ shingled # <<>>) =>
        LET res == shingled[1].res IN
        /\ res.err = ""
        /\ \A t \in 1..Len(res.val) : \A c \in 1..Len(res.val[t]) : res.val[t][c] # " "
        /\ Join(res.val, <<" ">>) = NameText(shingled[1].rec)

\* with neither flag set, a two-word record was split into its two words
C9_Witness ==
    /\ ~cfg.is_letter /\ ~cfg.is_text /\ shingled # <<>>
    /\ shingled[1].res = Ok(<< <<"a">>, <<"b">> >>)

\* C10: no index query is issued before the build phase's insertion session
\* has closed, and every insert of the build phase is visible to every query.
C10_InsertsVisibleAfterClose ==
    /\ \A k \in 1..Len(queries) : ~queries[k].session /\ queries[k].hidden = {}
    /\ (lsh # <<>> /\ lsh[1].session) => (pc = "building" /\ lsh[1].tables = {})

\* a query was answered after the build phase had inserted a record
C10_Witness == Len(queries) > 0 /\ inserted # {} /\ lsh[1].tables # {}

\* C11: after close() no source cursor this session opened is still open and
\* the connection is closed, in whatever state close() was called.
C11_CloseReleasesAll ==
    (log # <<>> /\ log[Len(log)].op = "close")
        => (~conn /\ \A k \in 1..Len(its) : ~its[k].open)

\* the signature of a record under the session's strategy
SigOf(r) == _get_min_hash(r, cfg.is_letter, cfg.is_text).val

\* signatures a and b agree on every slot of band j
SameBand(a, b, j) ==
    \A t \in ((j - 1) * BandRows(cfg.threshold) + 1)..(j * BandRows(cfg.threshold)) :
        a[t] = b[t]

\* C12: band independence.  When the signature of an inserted record and the
\* signature of a queried record agree on all slots of at least one band, the
\* query's candidate set holds the inserted record's id.
C12_BandIndependence ==
    \A k \in 1..Len(log) : \A p \in inserted :
        (IsPair(log[k])
            /\ \E j \in 1..BandCount(cfg.threshold) :
                   SameBand(SigOf(source[p]), SigOf(log[k].rec), j))
            => Get(source[p], id_name) \in log[k].vals

\* a pull found an inserted record with a different id whose signature agrees
\* with the queried one on one band and differs on another
C12_Witness ==
    \E k \in 1..Len(log) : \E p \in inserted :
        /\ IsPair(log[k]) /\ log[k].pos # p
        /\ \E j \in 1..BandCount(cfg.threshold) :
               SameBand(SigOf(source[p]), SigOf(log[k].rec), j)
        /\ \E j \in 1..BandCount(cfg.threshold) :
               ~SameBand(SigOf(source[p]), SigOf(log[k].rec), j)
        /\ HasKey(log[k].rec, id_name)
        /\ Get(log[k].rec, id_name) # Get(source[p], id_name)
        /\ Get(source[p], id_name) \in log[k].vals

\* the bucket entries of an index, flushed or still buffered by the session
Entries(l) == l.tables \cup l.buffer

\* the buckets (band keys) of band j that hold the id key
BucketsOf(l, j, key) == {e[2] : e \in {x \in Entries(l) : x[1] = j /\ x[3] = key}}

IndexedIds(l) == {e[3] : e \in Entries(l)}

\* the source positions inserted under the id key
InsertsOf(key) == {p \in inserted : Get(source[p], id_name) = key}

\* C13 as claimed: after every insert, each indexed id appears in exactly one
\* bucket of each band, whatever records the build phase pulls.
C13_OneBucketPerBand ==
    lsh # <<>> =>
        \A key \in IndexedIds(lsh[1]) : \A j \in 1..BandCount(cfg.threshold) :
            Cardinality(BucketsOf(lsh[1], j, key)) = 1

\* C13 as amended: after every insert, each indexed id appears in at least one
\* bucket of each band and in at most as many as there were inserts of that
\* id, so in exactly one when the id was inserted once.
C13_OneBucketPerBandPerInsert ==
    lsh # <<>> =>
        \A key \in IndexedIds(lsh[1]) : \A j \in 1..BandCount(cfg.threshold) :
            /\ Cardinality(BucketsOf(lsh[1], j, key)) >= 1
            /\ Cardinality(BucketsOf(lsh[1], j, key)) <= Cardinality(InsertsOf(key))

\* the build phase has inserted two ids, each in one bucket of each of two bands
C13_Witness ==
    /\ lsh # <<>>
    /\ BandCount(cfg.threshold) >= 2
    /\ Cardinality(IndexedIds(lsh[1])) = 2
    /\ \A key \in IndexedIds(lsh[1]) : \A j \in 1..BandCount(cfg.threshold) :
           Cardinality(BucketsOf(lsh[1], j, key)) = 1

\* C14: bucket memberships never shrink.  No insert removes an id from a
\* bucket (every entry an insert added is still in the index), and running
\* the build phase again with the same batch against the same index leaves
\* the bucket memberships a superset of, and equal to, the original ones.
C14_MembershipsNeverShrink ==
    /\ lsh # <<>> => InsertedEntries \subseteq Entries(lsh[1])
    /\ curr_it # <<>> =>
           /\ lsh[1].tables \subseteq Rebuild(lsh[1]).tables
           /\ Rebuild(lsh[1]).tables = lsh[1].tables

\* a finished build phase that inserted the same id twice, with different
\* signatures, and whose second run changes nothing
C14_Witness ==
    /\ curr_it # <<>>
    /\ \E p, q \in inserted :
           /\ p # q
           /\ Get(source[p], id_name) = Get(source[q], id_name)
           /\ SigOf(source[p]) # SigOf(source[q])
    /\ Rebuild(lsh[1]).tables = lsh[1].tables

\* the string forms of the non-id values of a record, None giving nothing,
\* concatenated in column order
RECURSIVE AllText(_)
AllText(rc) ==
    IF rc = <<>> THEN <<>>
    ELSE IF Head(rc)[1] = id_name \/ Head(rc)[2].kind = "none" THEN AllText(Tail(rc))
    ELSE Str(Head(rc)[2]) \o AllText(Tail(rc))

SeqRange(q) == {q[t] : t \in 1..Len(q)}

\* C15: under the character strategy the shingle set is exactly the set of
\* non-whitespace characters of the concatenated string forms of all non-id
\* values, and empty when these are all blank or None.
C15_CharacterShingles ==
    (cfg.is_letter /\ shingled # <<>>) =>
        /\ shingled[1].res.err = ""
        /\ SeqRange(shingled[1].res.val) =
               {<<c>> : c \in SeqRange(AllText(shingled[1].rec)) \ {" "}}

\* the pieces of a string between single spaces, empty pieces left out
NonEmpty(tok) == tok # <<>>
Tokens(str) == SelectSeq(Split(str), NonEmpty)

\* C16: under the tokenized strategy (is_letter false, is_text true) shingle
\* extraction succeeds for every record and returns the non-empty tokens of
\* the space-joined non-id values.
C16_TokenizedShingles ==
    (~cfg.is_letter /\ cfg.is_text /\ shingled # <<>>) =>
        /\ shingled[1].res.err = ""
        /\ shingled[1].res.val =
               Tokens(_record_to_string(shingled[1].rec, <<" ">>))

\* C18: when the storage backend fails while the index is queried, the pull
\* propagates that failure: it yields no pair, no candidate set, and does not
\* signal end-of-sequence.
C18_BackendFailurePropagates ==
    \A k \in 1..Len(log) :
        log[k].fault =>
            /\ log[k].kind = "BackendError"
            /\ ~IsPair(log[k]) /\ ~IsStop(log[k])
            /\ log[k].vals = {}

\* a pull of a record whose id is indexed failed in the storage backend
C18_Witness ==
    \E k \in 1..Len(log) :
        /\ log[k].fault
        /\ log[k].pos \in inserted
        /\ lsh[1].tables # {}

\* shingle extraction gives the record no token at all
ZeroTokens(r) ==
    LET cset == _get_shingle(r, cfg.is_letter, cfg.is_text)
    IN cset.err = "" /\ cset.val = <<>>

\* the band key of a signature holding the sentinel in every slot
SentinelKey == [t \in 1..BandRows(cfg.threshold) |-> MaxHash]

\* the ids the tables hold under the sentinel key of some band
SentinelIds(l) == {e[3] : e \in {x \in l.tables : x[2] = SentinelKey}}

\* C17: a record with a zero-token shingle set gets the all-sentinel
\* signature; the build phase inserts it and the query phase queries with it
\* without an error: every such id-carrying record pulled by the build phase
\* is inserted, under the sentinel key of every band, and a pull that signs
\* such a record yields it with the ids stored under the sentinel key (or
\* propagates a failure of the storage backend).
C17_EmptyShingleSentinel ==
    /\ \A p \in 1..pulled :
           (HasKey(source[p], id_name) /\ ZeroTokens(source[p])) => p \in inserted
    /\ \A p \in inserted :
           ZeroTokens(source[p]) =>
               \A j \in 1..BandCount(cfg.threshold) :
                   <<j, SentinelKey, Get(source[p], id_name)>> \in Entries(lsh[1])
    /\ \A k \in 1..Len(log) :
           (log[k].op = "next" /\ log[k].pos > 0 /\ ZeroTokens(log[k].rec)) =>
               /\ IsPair(log[k]) \/ log[k].fault
               /\ IsPair(log[k]) => log[k].vals = SentinelIds(lsh[1])

\* a zero-token record was inserted and later yielded, its own id among the
\* candidates
C17_Witness ==
    \E k \in 1..Len(log) :
        /\ IsPair(log[k]) /\ ZeroTokens(log[k].rec)
        /\ log[k].pos \in inserted
        /\ Get(log[k].rec, id_name) \in log[k].vals

\* the cursors of the session that are open
OpenCursors == {k \in 1..Len(its) : its[k].open}

\* C19: a session never holds two open source cursors, and the cursor the
\* query phase reads through is named cursor_name + "_matches", which is not
\* the name of the build-phase cursor.
C19_OneOpenCursor ==
    /\ Cardinality(OpenCursors) <= 1
    /\ curr_it # <<>> =>
           /\ its[curr_it[1]].name = cursor_name \o <<"_matches">>
           /\ its[curr_it[1]].name # cursor_name

\* the ids of the records of the indexed prefix that carry the id field
PrefixIds ==
    {Get(source[p], id_name) : p \in {q \in 1..PrefixLen : HasKey(source[q], id_name)}}

\* C20: every id of every candidate set the query phase yields is the id of
\* one of the first session_size records of the source that carries the id
\* field: a record beyond the prefix is a candidate of nothing, itself
\* included, unless a prefix record has its id.
C20_CandidatesArePrefixIds ==
    \A k \in 1..Len(log) : IsPair(log[k]) => log[k].vals \subseteq PrefixIds

\* a record beyond the indexed prefix was yielded with candidates, its own id
\* not among them
C20_Witness ==
    \E k \in 1..Len(log) :
        /\ IsPair(log[k]) /\ log[k].pos > PrefixLen
        /\ HasKey(log[k].rec, id_name)
        /\ log[k].vals # {}
        /\ Get(log[k].rec, id_name) \notin log[k].vals

====
